---- MODULE Spec2Model ----
(***************************************************************************)
(* DemoCar SOVD training server (src/main.py): the entity catalogue, the   *)
(* data-resource catalog bound to the simulated vehicle state, the TTL     *)
(* lock table, the operation table with its background progress and blink  *)
(* tasks, and the vehicle mode.                                            *)
(*                                                                         *)
(* Scheduling: a request handler runs to completion as one step; the       *)
(* background coroutines (simulate_operation, blink) run one segment       *)
(* between two awaits per step and interleave freely with the requests.    *)
(***************************************************************************)
EXTENDS Integers, Sequences, FiniteSets, TLC

VARIABLES
    vehicle_state,   \* the VehicleState singleton
    DATA_RESOURCES,  \* entity -> name -> descriptor
    FAULTS,          \* entity -> sequence of fault ids
    OPERATIONS,      \* op number N (for "op-N") -> operation record
    op_counter,      \* _op_counter
    LOCKS,           \* entity -> [token, expires]
    sim_tasks,       \* op number -> position of its simulate_operation coroutine
    blink_tasks,     \* op number -> position of its blink coroutine
    now,             \* time.time(), in whole seconds
    resp             \* the request last served and the response it got

vars == <<vehicle_state, DATA_RESOURCES, FAULTS, OPERATIONS, op_counter,
          LOCKS, sim_tasks, blink_tasks, now, resp>>

----------------------------------------------------------------------------
(* Bounds of the model. *)

\* the clock runs from 0 to MaxTime
MaxTime == 1
\* operations started where the progress tasks are stepped
MaxOps == 1
\* operations started where only the start requests are served
MaxStarts == 2
\* observations served while the engine runs
MaxObs == 2
\* light-flash operations started
MaxFlashes == 2
\* faults the engine's list may hold
MaxFaults == 2

----------------------------------------------------------------------------
(* JSON values: strings, booleans and integers, kept apart by a tag. *)

Str(s) == [t |-> "str", s |-> s, b |-> FALSE, n |-> 0]
Bool(b) == [t |-> "bool", s |-> "", b |-> b, n |-> 0]
Num(n) == [t |-> "int", s |-> "", b |-> FALSE, n |-> n]
\* a descriptor that has no "value" key, a request that has no lockToken
None == [t |-> "none", s |-> "", b |-> FALSE, n |-> 0]

\* Python's bool(value)
py_bool(v) ==
    CASE v.t = "bool" -> v.b
      [] v.t = "str" -> v.s # ""
      [] v.t = "int" -> v.n # 0
      [] OTHER -> FALSE

----------------------------------------------------------------------------
(* The static tables. *)

ENTITIES == {"vehicle", "engine", "battery", "brakes", "lights", "doors"}

\* HTTP status codes raised by the handlers
HTTP_OK == 200
HTTP_BAD_REQUEST == 400
HTTP_NOT_FOUND == 404
HTTP_NOT_ALLOWED == 405
HTTP_LOCKED == 423
\* an exception that is not an HTTPException
HTTP_SERVER_ERROR == 500

Desc(rw, enum, value) == [rw |-> rw, enum |-> enum, value |-> value]

DATA_RESOURCES_init ==
    [e \in ENTITIES |->
        CASE e = "vehicle" ->
                [n \in {"speed", "fuel_level", "temperature", "mode"} |->
                    IF n = "mode"
                    THEN Desc("rw", {Str("drive"), Str("service"), Str("transport")}, Str("drive"))
                    ELSE Desc("r", {}, None)]
          [] e = "engine" ->
                [n \in {"rpm", "state"} |->
                    IF n = "state" THEN Desc("r", {Str("off"), Str("running")}, None)
                    ELSE Desc("r", {}, None)]
          [] e = "battery" ->
                [n \in {"voltage", "status"} |->
                    IF n = "status" THEN Desc("r", {Str("charging"), Str("discharging")}, None)
                    ELSE Desc("r", {}, None)]
          [] e = "brakes" ->
                [n \in {"brake"} |-> Desc("rw", {Str("applied"), Str("released")}, Str("released"))]
          [] e = "lights" ->
                [n \in {"lights"} |-> Desc("rw", {Str("off"), Str("on")}, Str("off"))]
          [] OTHER ->
                [n \in {"doors_locked"} |-> Desc("rw", {}, Bool(TRUE))]]

FAULTS_init ==
    [e \in ENTITIES |->
        CASE e = "engine" -> <<"P0420">>
          [] e = "lights" -> <<"B1234">>
          [] OTHER -> <<>>]

\* temperature in tenths of a degree, voltage and fuel_level in hundredths
VehicleState_init ==
    [engine |-> "off", brake |-> Str("released"), rpm |-> 0, temperature |-> 750,
     speed |-> 0, fuel_level |-> 10000, lights |-> Str("off"),
     doors_locked |-> Bool(TRUE), voltage |-> 1260, status |-> "charging"]

NoResp == [api |-> "none", entity |-> "", code |-> HTTP_OK]

Init ==
    /\ vehicle_state = VehicleState_init
    /\ DATA_RESOURCES = DATA_RESOURCES_init
    /\ FAULTS = FAULTS_init
    /\ OPERATIONS = <<>>
    /\ op_counter = 0
    /\ LOCKS = <<>>
    /\ sim_tasks = <<>>
    /\ blink_tasks = <<>>
    /\ now = 0
    /\ resp = NoResp

----------------------------------------------------------------------------
(* Helpers. *)

\* f with key k bound to v (dict assignment f[k] = v)
Put(f, k, v) == [x \in DOMAIN f \cup {k} |-> IF x = k THEN v ELSE f[x]]
\* f without key k (dict.pop(k, None))
Pop(f, k) == [x \in DOMAIN f \ {k} |-> f[x]]

\* raise HTTPException(code, detail): the handler ends here, nothing else changes
Raise(api, entity_id, code, detail) ==
    /\ resp' = [api |-> api, entity |-> entity_id, code |-> code, detail |-> detail]
    /\ UNCHANGED <<vehicle_state, DATA_RESOURCES, FAULTS, OPERATIONS, op_counter,
                   LOCKS, sim_tasks, blink_tasks, now>>

----------------------------------------------------------------------------
(* The clock. *)

Tick ==
    /\ now < MaxTime
    /\ now' = now + 1
    /\ UNCHANGED <<vehicle_state, DATA_RESOURCES, FAULTS, OPERATIONS, op_counter,
                   LOCKS, sim_tasks, blink_tasks, resp>>

----------------------------------------------------------------------------
(* 7) Locks. *)

\* require_lock without the token comparison
require_lock_any_token(entity_id, token) ==
    /\ entity_id \in DOMAIN LOCKS
    /\ ~(LOCKS[entity_id].expires < now)

\* require_lock without the expiry comparison
require_lock_no_expiry(entity_id, token) ==
    /\ entity_id \in DOMAIN LOCKS
    /\ LOCKS[entity_id].token = token

\* require_lock passes (does not raise)
require_lock(entity_id, token) ==
    /\ entity_id \in DOMAIN LOCKS
    /\ ~(LOCKS[entity_id].expires < now)
    /\ LOCKS[entity_id].token = token

\* POST /locks; token is the value random.randint produced
acquire_lock(entity_id, ttlSec, token) ==
    /\ LOCKS' = Put(LOCKS, entity_id, [token |-> token, expires |-> now + ttlSec])
    /\ resp' = [api |-> "acquire", entity |-> entity_id, code |-> HTTP_OK,
                lockToken |-> token, expiresIn |-> ttlSec]
    /\ UNCHANGED <<vehicle_state, DATA_RESOURCES, FAULTS, OPERATIONS, op_counter,
                   sim_tasks, blink_tasks, now>>

\* the "locks" list of GET /locks: empty for no lease and for an expired one
locks_of(entity_id) ==
    IF entity_id \notin DOMAIN LOCKS \/ LOCKS[entity_id].expires < now
    THEN <<>>
    ELSE <<[token |-> LOCKS[entity_id].token,
            expiresIn |-> LOCKS[entity_id].expires - now]>>

\* GET /locks
list_locks(entity_id) ==
    /\ resp' = [api |-> "list_locks", entity |-> entity_id, code |-> HTTP_OK,
                locks |-> locks_of(entity_id)]
    /\ UNCHANGED <<vehicle_state, DATA_RESOURCES, FAULTS, OPERATIONS, op_counter,
                   LOCKS, sim_tasks, blink_tasks, now>>

\* release_lock without the call of require_lock
release_lock_unchecked(entity_id, lockToken) ==
    /\ LOCKS' = Pop(LOCKS, entity_id)
    /\ resp' = [api |-> "release", entity |-> entity_id, code |-> HTTP_OK,
                status |-> "released"]
    /\ UNCHANGED <<vehicle_state, DATA_RESOURCES, FAULTS, OPERATIONS, op_counter,
                   sim_tasks, blink_tasks, now>>

\* DELETE /locks
release_lock(entity_id, lockToken) ==
    IF ~require_lock(entity_id, lockToken)
    THEN Raise("release", entity_id, HTTP_LOCKED, "Lock required or invalid/expired lock")
    ELSE
        /\ LOCKS' = Pop(LOCKS, entity_id)
        /\ resp' = [api |-> "release", entity |-> entity_id, code |-> HTTP_OK,
                    status |-> "released"]
        /\ UNCHANGED <<vehicle_state, DATA_RESOURCES, FAULTS, OPERATIONS, op_counter,
                       sim_tasks, blink_tasks, now>>

----------------------------------------------------------------------------
(* 4) Faults. *)

\* the fault random.random() < 0.02 appends
INJECTED == "P0301"

\* GET /faults; inject: random.random() fell below the threshold
list_faults(entity_id, inject) ==
    IF entity_id \notin ENTITIES
    THEN Raise("faults", entity_id, HTTP_NOT_FOUND, "entity not found")
    ELSE
        /\ FAULTS' = IF entity_id = "engine" /\ inject
                     THEN [FAULTS EXCEPT !["engine"] = Append(@, INJECTED)]
                     ELSE FAULTS
        /\ resp' = [api |-> "faults", entity |-> entity_id, code |-> HTTP_OK,
                    faults |-> IF entity_id \in DOMAIN FAULTS'
                               THEN FAULTS'[entity_id] ELSE <<>>]
        /\ UNCHANGED <<vehicle_state, DATA_RESOURCES, OPERATIONS, op_counter, LOCKS,
                       sim_tasks, blink_tasks, now>>

\* DELETE /faults
clear_faults(entity_id, lockToken) ==
    IF ~require_lock(entity_id, lockToken)
    THEN Raise("clear", entity_id, HTTP_LOCKED, "Lock required or invalid/expired lock")
    ELSE
        /\ FAULTS' = Put(FAULTS, entity_id, <<>>)
        /\ resp' = [api |-> "clear", entity |-> entity_id, code |-> HTTP_OK,
                    status |-> "deleted"]
        /\ UNCHANGED <<vehicle_state, DATA_RESOURCES, OPERATIONS, op_counter, LOCKS,
                       sim_tasks, blink_tasks, now>>

----------------------------------------------------------------------------
(* 3) Data resources. *)

apply_to_live_state(dr, entity_id, name, value) ==
    IF entity_id = "vehicle" /\ name = "mode"
    THEN [dr EXCEPT !["vehicle"]["mode"].value = value]
    ELSE dr

apply_to_vehicle_state(vs, entity_id, name, value) ==
    CASE entity_id = "brakes" /\ name = "brake" -> [vs EXCEPT !.brake = value]
      [] entity_id = "lights" /\ name = "lights" -> [vs EXCEPT !.lights = value]
      [] entity_id = "doors" /\ name = "doors_locked" ->
            [vs EXCEPT !.doors_locked = Bool(py_bool(value))]
      [] OTHER -> vs

\* PUT /data/{name}
write_single(entity_id, name, value, lockToken) ==
    IF entity_id \notin DOMAIN DATA_RESOURCES \/ name \notin DOMAIN DATA_RESOURCES[entity_id]
    THEN Raise("write", entity_id, HTTP_NOT_FOUND, "resource not found")
    ELSE IF DATA_RESOURCES[entity_id][name].rw # "rw"
    THEN Raise("write", entity_id, HTTP_NOT_ALLOWED, "resource is read-only")
    ELSE IF ~require_lock(entity_id, lockToken)
    THEN Raise("write", entity_id, HTTP_LOCKED, "Lock required or invalid/expired lock")
    ELSE
        /\ DATA_RESOURCES' =
              apply_to_live_state(
                  [DATA_RESOURCES EXCEPT ![entity_id][name].value = value],
                  entity_id, name, value)
        /\ vehicle_state' = apply_to_vehicle_state(vehicle_state, entity_id, name, value)
        /\ resp' = [api |-> "write", entity |-> entity_id, code |-> HTTP_OK,
                    name |-> name, value |-> value]
        /\ UNCHANGED <<FAULTS, OPERATIONS, op_counter, LOCKS, sim_tasks, blink_tasks, now>>

\* PATCH /data/{name}
patch_single(entity_id, name, value, lockToken) ==
    write_single(entity_id, name, value, lockToken)

----------------------------------------------------------------------------
(* 0) The simulated vehicle. *)

\* the bounds of random.randint and random.uniform in update_vehicle_state
RPM_IDLE == 650
RPM_MAX == 6000
SPEED_MAX == 180
\* fuel burnt per observation, in hundredths of a percent
FUEL_STEP == 2
\* speed lost per observation with the engine off
COAST_STEP == 2

Max(a, b) == IF a >= b THEN a ELSE b
Min(a, b) == IF a <= b THEN a ELSE b

\* update_vehicle_state without max(..., 0) on the engine-off branch
update_vehicle_state_coast_unclamped(vs, rnd) ==
    IF vs.engine = "running"
    THEN [vs EXCEPT
            !.rpm = Max(RPM_IDLE, Min(vs.rpm + rnd.rpm_delta, RPM_MAX)),
            !.temperature = rnd.temperature,
            !.voltage = rnd.voltage,
            !.speed = IF vs.brake = Str("released")
                      THEN Min(vs.speed + rnd.accel, SPEED_MAX)
                      ELSE Max(vs.speed - rnd.decel, 0),
            !.fuel_level = Max(vs.fuel_level - FUEL_STEP, 0)]
    ELSE [vs EXCEPT !.rpm = 0, !.speed = vs.speed - COAST_STEP]

\* update_vehicle_state without min(..., 180) on the accelerating branch
update_vehicle_state_speed_unclamped(vs, rnd) ==
    IF vs.engine = "running"
    THEN [vs EXCEPT
            !.rpm = Max(RPM_IDLE, Min(vs.rpm + rnd.rpm_delta, RPM_MAX)),
            !.temperature = rnd.temperature,
            !.voltage = rnd.voltage,
            !.speed = IF vs.brake = Str("released")
                      THEN vs.speed + rnd.accel
                      ELSE Max(vs.speed - rnd.decel, 0),
            !.fuel_level = Max(vs.fuel_level - FUEL_STEP, 0)]
    ELSE [vs EXCEPT !.rpm = 0, !.speed = Max(vs.speed - COAST_STEP, 0)]

\* rnd: the values the random calls return in this observation
update_vehicle_state(vs, rnd) ==
    IF vs.engine = "running"
    THEN [vs EXCEPT
            !.rpm = Max(RPM_IDLE, Min(vs.rpm + rnd.rpm_delta, RPM_MAX)),
            !.temperature = rnd.temperature,
            !.voltage = rnd.voltage,
            !.speed = IF vs.brake = Str("released")
                      THEN Min(vs.speed + rnd.accel, SPEED_MAX)
                      ELSE Max(vs.speed - rnd.decel, 0),
            !.fuel_level = Max(vs.fuel_level - FUEL_STEP, 0)]
    ELSE [vs EXCEPT !.rpm = 0, !.speed = Max(vs.speed - COAST_STEP, 0)]

\* the live-value map of list_data_resources, read from vehicle state vs
LiveValues(entity_id, vs) ==
    CASE entity_id = "vehicle" ->
            [n \in {"speed", "fuel_level", "temperature", "mode"} |->
                CASE n = "speed" -> Num(vs.speed)
                  [] n = "fuel_level" -> Num(vs.fuel_level)
                  [] n = "temperature" -> Num(vs.temperature)
                  [] OTHER -> DATA_RESOURCES["vehicle"]["mode"].value]
      [] entity_id = "engine" ->
            [n \in {"rpm", "state"} |-> IF n = "rpm" THEN Num(vs.rpm) ELSE Str(vs.engine)]
      [] entity_id = "battery" ->
            [n \in {"voltage", "status"} |->
                IF n = "voltage" THEN Num(vs.voltage) ELSE Str(vs.status)]
      [] entity_id = "brakes" -> [n \in {"brake"} |-> vs.brake]
      [] entity_id = "lights" -> [n \in {"lights"} |-> vs.lights]
      [] entity_id = "doors" -> [n \in {"doors_locked"} |-> vs.doors_locked]
      [] OTHER -> <<>>

\* GET /data-resources
list_data_resources(entity_id, rnd) ==
    IF entity_id \notin DOMAIN DATA_RESOURCES
    THEN Raise("list", entity_id, HTTP_NOT_FOUND, "entity not found")
    ELSE
        /\ vehicle_state' = update_vehicle_state(vehicle_state, rnd)
        /\ resp' = [api |-> "list", entity |-> entity_id, code |-> HTTP_OK,
                    resources |-> DATA_RESOURCES[entity_id],
                    values |-> LiveValues(entity_id, vehicle_state')]
        /\ UNCHANGED <<DATA_RESOURCES, FAULTS, OPERATIONS, op_counter, LOCKS,
                       sim_tasks, blink_tasks, now>>

\* GET /data/{name}: the values dict has no entry for a resource added at run
\* time, and values[name] then raises KeyError after the state was advanced
read_single(entity_id, name, rnd) ==
    IF entity_id \notin DOMAIN DATA_RESOURCES \/ name \notin DOMAIN DATA_RESOURCES[entity_id]
    THEN Raise("read", entity_id, HTTP_NOT_FOUND, "resource not found")
    ELSE
        /\ vehicle_state' = update_vehicle_state(vehicle_state, rnd)
        /\ LET values == LiveValues(entity_id, vehicle_state') IN
           resp' = IF name \in DOMAIN values
                   THEN [api |-> "read", entity |-> entity_id, code |-> HTTP_OK,
                         name |-> name, value |-> values[name]]
                   ELSE [api |-> "read", entity |-> entity_id,
                         code |-> HTTP_SERVER_ERROR, detail |-> "KeyError"]
        /\ UNCHANGED <<DATA_RESOURCES, FAULTS, OPERATIONS, op_counter, LOCKS,
                       sim_tasks, blink_tasks, now>>

----------------------------------------------------------------------------
(* 5) Operations. *)

\* simulate_operation's steps, and the toggles of blink
steps == 10
BLINKS == 6

\* the privileged names without the speed limiter
PRIVILEGED_without_limiter == {"resetECU", "flashLights"}

\* the operation names that need a lock
PRIVILEGED == {"resetECU", "flashLights", "setSpeedLimiter"}

new_op(entity_id, name) ==
    [entity |-> entity_id, name |-> name, status |-> "running", progress |-> 0,
     started_at |-> now]

\* POST /operations; limit is int(params.get("limit", 120))
start_operation(entity_id, name, limit, lockToken) ==
    IF name \in PRIVILEGED /\ ~require_lock(entity_id, lockToken)
    THEN Raise("start", entity_id, HTTP_LOCKED, "Lock required or invalid/expired lock")
    ELSE
        /\ vehicle_state' =
              CASE name = "startEngine" -> [vehicle_state EXCEPT !.engine = "running"]
                [] name = "stopEngine" -> [vehicle_state EXCEPT !.engine = "off"]
                [] OTHER -> vehicle_state
        /\ DATA_RESOURCES' =
              IF name = "setSpeedLimiter"
              THEN [DATA_RESOURCES EXCEPT !["vehicle"] =
                       Put(DATA_RESOURCES["vehicle"], "speed_limit",
                           Desc("rw", {}, Num(limit)))]
              ELSE DATA_RESOURCES
        /\ FAULTS' = IF name = "resetECU" THEN [k \in DOMAIN FAULTS |-> <<>>] ELSE FAULTS
        /\ op_counter' = op_counter + 1
        /\ OPERATIONS' = Put(OPERATIONS, op_counter', new_op(entity_id, name))
        /\ sim_tasks' = Put(sim_tasks, op_counter', [i |-> 0, alive |-> TRUE])
        /\ blink_tasks' =
              IF name = "flashLights"
              THEN Put(blink_tasks, op_counter', [pc |-> "start", k |-> 0, on |-> None])
              ELSE blink_tasks
        /\ resp' = [api |-> "start", entity |-> entity_id, code |-> HTTP_OK,
                    opId |-> op_counter', status |-> "running"]
        /\ UNCHANGED <<LOCKS, now>>

\* simulate_operation whose loop ends without the final status assignment
simulate_operation_never_completes(op_id) ==
    /\ op_id \in DOMAIN sim_tasks
    /\ sim_tasks[op_id].alive
    /\ LET i == sim_tasks[op_id].i
           progress == ((i + 1) * 100) \div steps
       IN IF op_id \notin DOMAIN OPERATIONS \/ OPERATIONS[op_id].status = "stopped"
          THEN /\ sim_tasks' = [sim_tasks EXCEPT ![op_id].alive = FALSE]
               /\ UNCHANGED OPERATIONS
          ELSE IF i + 1 < steps
          THEN /\ OPERATIONS' = [OPERATIONS EXCEPT ![op_id].progress = progress]
               /\ sim_tasks' = [sim_tasks EXCEPT ![op_id].i = i + 1]
          ELSE /\ OPERATIONS' = [OPERATIONS EXCEPT ![op_id].progress = progress]
               /\ sim_tasks' = [sim_tasks EXCEPT ![op_id].alive = FALSE]
    /\ UNCHANGED <<vehicle_state, DATA_RESOURCES, FAULTS, op_counter, LOCKS,
                   blink_tasks, now, resp>>

\* one iteration of simulate_operation without the test for a stop
simulate_operation_unchecked(op_id) ==
    /\ op_id \in DOMAIN sim_tasks
    /\ sim_tasks[op_id].alive
    /\ LET i == sim_tasks[op_id].i
           progress == ((i + 1) * 100) \div steps
       IN IF i + 1 < steps
          THEN /\ OPERATIONS' = [OPERATIONS EXCEPT ![op_id].progress = progress]
               /\ sim_tasks' = [sim_tasks EXCEPT ![op_id].i = i + 1]
          ELSE /\ OPERATIONS' = [OPERATIONS EXCEPT ![op_id].progress = progress,
                                                   ![op_id].status = "completed"]
               /\ sim_tasks' = [sim_tasks EXCEPT ![op_id].alive = FALSE]
    /\ UNCHANGED <<vehicle_state, DATA_RESOURCES, FAULTS, op_counter, LOCKS,
                   blink_tasks, now, resp>>

\* simulate_operation from the end of one sleep to the next await, or to its end
simulate_operation(op_id) ==
    /\ op_id \in DOMAIN sim_tasks
    /\ sim_tasks[op_id].alive
    /\ LET i == sim_tasks[op_id].i
           progress == ((i + 1) * 100) \div steps
       IN IF op_id \notin DOMAIN OPERATIONS \/ OPERATIONS[op_id].status = "stopped"
          THEN /\ sim_tasks' = [sim_tasks EXCEPT ![op_id].alive = FALSE]
               /\ UNCHANGED OPERATIONS
          ELSE IF i + 1 < steps
          THEN /\ OPERATIONS' = [OPERATIONS EXCEPT ![op_id].progress = progress]
               /\ sim_tasks' = [sim_tasks EXCEPT ![op_id].i = i + 1]
          ELSE /\ OPERATIONS' = [OPERATIONS EXCEPT ![op_id].progress = progress,
                                                   ![op_id].status = "completed"]
               /\ sim_tasks' = [sim_tasks EXCEPT ![op_id].alive = FALSE]
    /\ UNCHANGED <<vehicle_state, DATA_RESOURCES, FAULTS, op_counter, LOCKS,
                   blink_tasks, now, resp>>

\* blink from one await to the next, or to its end
blink(op_id) ==
    /\ op_id \in DOMAIN blink_tasks
    /\ LET b == blink_tasks[op_id] IN
       CASE b.pc = "start" ->
               /\ vehicle_state' = [vehicle_state EXCEPT !.lights = Str("on")]
               /\ blink_tasks' = [blink_tasks EXCEPT
                                     ![op_id] = [pc |-> "lit", k |-> 0,
                                                 on |-> vehicle_state.lights]]
         [] b.pc = "lit" ->
               /\ vehicle_state' = [vehicle_state EXCEPT !.lights = Str("off")]
               /\ blink_tasks' = [blink_tasks EXCEPT ![op_id].pc = "dark"]
         [] b.pc = "dark" /\ b.k + 1 < BLINKS ->
               /\ vehicle_state' = [vehicle_state EXCEPT !.lights = Str("on")]
               /\ blink_tasks' = [blink_tasks EXCEPT ![op_id].pc = "lit",
                                                     ![op_id].k = b.k + 1]
         [] b.pc = "dark" /\ b.k + 1 >= BLINKS ->
               /\ vehicle_state' = [vehicle_state EXCEPT !.lights = b.on]
               /\ blink_tasks' = [blink_tasks EXCEPT ![op_id].pc = "done",
                                                     ![op_id].k = b.k + 1]
         [] OTHER -> FALSE
    /\ UNCHANGED <<DATA_RESOURCES, FAULTS, OPERATIONS, op_counter, LOCKS,
                   sim_tasks, now, resp>>

\* DELETE /operations/{op_id}
stop_operation(op_id, lockToken) ==
    IF op_id \notin DOMAIN OPERATIONS
    THEN Raise("stop", "", HTTP_NOT_FOUND, "op not found")
    ELSE IF ~require_lock(OPERATIONS[op_id].entity, lockToken)
    THEN Raise("stop", OPERATIONS[op_id].entity, HTTP_LOCKED,
               "Lock required or invalid/expired lock")
    ELSE
        /\ OPERATIONS' = [OPERATIONS EXCEPT ![op_id].status = "stopped"]
        /\ resp' = [api |-> "stop", entity |-> OPERATIONS[op_id].entity,
                    code |-> HTTP_OK, opId |-> op_id, status |-> "stopped"]
        /\ UNCHANGED <<vehicle_state, DATA_RESOURCES, FAULTS, op_counter, LOCKS,
                       sim_tasks, blink_tasks, now>>

----------------------------------------------------------------------------
(* 10) The legacy endpoints. *)

\* GET /components
components(rnd) ==
    /\ vehicle_state' = update_vehicle_state(vehicle_state, rnd)
    /\ resp' = [api |-> "components", entity |-> "", code |-> HTTP_OK]
    /\ UNCHANGED <<DATA_RESOURCES, FAULTS, OPERATIONS, op_counter, LOCKS,
                   sim_tasks, blink_tasks, now>>

\* POST /command
command(cmd) ==
    /\ vehicle_state' =
          CASE cmd = "START_ENGINE" -> [vehicle_state EXCEPT !.engine = "running"]
            [] cmd = "STOP_ENGINE" -> [vehicle_state EXCEPT !.engine = "off"]
            [] cmd = "APPLY_BRAKE" -> [vehicle_state EXCEPT !.brake = Str("applied")]
            [] cmd = "RELEASE_BRAKE" -> [vehicle_state EXCEPT !.brake = Str("released")]
            [] cmd = "LIGHTS_ON" -> [vehicle_state EXCEPT !.lights = Str("on")]
            [] cmd = "LIGHTS_OFF" -> [vehicle_state EXCEPT !.lights = Str("off")]
            [] cmd = "LOCK_DOORS" -> [vehicle_state EXCEPT !.doors_locked = Bool(TRUE)]
            [] cmd = "UNLOCK_DOORS" -> [vehicle_state EXCEPT !.doors_locked = Bool(FALSE)]
            [] OTHER -> vehicle_state
    /\ resp' = [api |-> "command", entity |-> "", code |-> HTTP_OK]
    /\ UNCHANGED <<DATA_RESOURCES, FAULTS, OPERATIONS, op_counter, LOCKS,
                   sim_tasks, blink_tasks, now>>

----------------------------------------------------------------------------
(* 6) Modes. *)

\* set_mode checking the lock before the entity id
set_mode_lock_first(entity_id, mode, lockToken) ==
    IF ~require_lock(entity_id, lockToken)
    THEN Raise("set_mode", entity_id, HTTP_LOCKED, "Lock required or invalid/expired lock")
    ELSE IF entity_id # "vehicle"
    THEN Raise("set_mode", entity_id, HTTP_BAD_REQUEST, "only vehicle mode is supported in demo")
    ELSE IF mode \notin DATA_RESOURCES["vehicle"]["mode"].enum
    THEN Raise("set_mode", entity_id, HTTP_BAD_REQUEST, "unsupported mode")
    ELSE
        /\ DATA_RESOURCES' = [DATA_RESOURCES EXCEPT !["vehicle"]["mode"].value = mode]
        /\ resp' = [api |-> "set_mode", entity |-> entity_id, code |-> HTTP_OK,
                    current |-> mode]
        /\ UNCHANGED <<vehicle_state, FAULTS, OPERATIONS, op_counter, LOCKS,
                       sim_tasks, blink_tasks, now>>

set_mode(entity_id, mode, lockToken) ==
    IF entity_id # "vehicle"
    THEN Raise("set_mode", entity_id, HTTP_BAD_REQUEST, "only vehicle mode is supported in demo")
    ELSE IF ~require_lock(entity_id, lockToken)
    THEN Raise("set_mode", entity_id, HTTP_LOCKED, "Lock required or invalid/expired lock")
    ELSE IF mode \notin DATA_RESOURCES["vehicle"]["mode"].enum
    THEN Raise("set_mode", entity_id, HTTP_BAD_REQUEST, "unsupported mode")
    ELSE
        /\ DATA_RESOURCES' = [DATA_RESOURCES EXCEPT !["vehicle"]["mode"].value = mode]
        /\ resp' = [api |-> "set_mode", entity |-> entity_id, code |-> HTTP_OK,
                    current |-> mode]
        /\ UNCHANGED <<vehicle_state, FAULTS, OPERATIONS, op_counter, LOCKS,
                       sim_tasks, blink_tasks, now>>

----------------------------------------------------------------------------
(* Request inputs. *)

\* entity ids a client may send: registered ones and one that is not
EntityIds == {"vehicle", "brakes", "lights", "doors", "ghost"}
\* the lock tokens random.randint may produce
Tokens == {Str("lock-100000"), Str("lock-999999")}
\* the lockToken a client may present
PresentedTokens == Tokens \cup {None}
TTLs == {-1, 0, 1}
\* <<entity, resource, value>> of the writes a client may send: for each writable
\* resource a legal value and one outside its enumeration or type, and writes
\* to a read-only resource, an unknown resource and an unknown entity
WriteInputs ==
    {<<"vehicle", "mode", Str("service")>>, <<"vehicle", "mode", Str("bogus")>>,
     <<"brakes", "brake", Str("applied")>>, <<"brakes", "brake", Str("bogus")>>,
     <<"lights", "lights", Str("on")>>, <<"lights", "lights", Str("bogus")>>,
     <<"doors", "doors_locked", Bool(FALSE)>>, <<"doors", "doors_locked", Str("bogus")>>,
     <<"vehicle", "speed", Num(50)>>, <<"vehicle", "nosuch", Num(50)>>,
     <<"ghost", "mode", Str("service")>>}
\* the writes sent with PATCH
PatchInputs ==
    {<<"doors", "doors_locked", Bool(FALSE)>>, <<"lights", "lights", Str("bogus")>>,
     <<"vehicle", "speed", Num(50)>>}
Modes == {Str("drive"), Str("service"), Str("moon-drive")}
\* the entity ids mode requests are sent to
ModeEntityIds == {"vehicle", "doors"}

\* the entity ids locks are requested for
LockIds == {"vehicle", "lights"}

(* Lock manager, catalog writes and mode: no operations. *)
NextLock ==
    \/ Tick
    \/ \E e \in LockIds, ttl \in TTLs, t \in Tokens :
          acquire_lock(e, ttl, t)
    \/ \E w \in WriteInputs, t \in PresentedTokens :
          write_single(w[1], w[2], w[3], t)
    \/ \E w \in PatchInputs, t \in PresentedTokens :
          patch_single(w[1], w[2], w[3], t)
    \/ \E e \in ModeEntityIds, m \in Modes, t \in PresentedTokens :
          set_mode(e, m, t)

SpecLock == Init /\ [][NextLock]_vars

(* Progress tasks racing with stop requests: one operation name, one entity. *)

\* a ttl that leaves the lease live and one that leaves it expired at once
OpsTTLs == {-1, 1}
\* operation ids a client may send: the ones issued and one that never is
OpIds == 1..(MaxOps + 1)

NextOps ==
    \/ \E ttl \in OpsTTLs, t \in Tokens :
          acquire_lock("vehicle", ttl, t)
    \/ \E t \in PresentedTokens :
          op_counter < MaxOps /\ start_operation("vehicle", "startEngine", 120, t)
    \/ \E op \in DOMAIN sim_tasks :
          simulate_operation(op)
    \/ \E op \in OpIds, t \in PresentedTokens :
          stop_operation(op, t)

SpecOps == Init /\ [][NextOps]_vars

(* Start requests alone: every branch of start_operation, no task is stepped. *)

StartIds == {"vehicle", "lights"}
StartNames == {"startEngine", "selfTest", "resetECU", "flashLights", "setSpeedLimiter"}
Limits == {100}

NextStart ==
    \/ \E e \in StartIds, ttl \in OpsTTLs, t \in Tokens :
          acquire_lock(e, ttl, t)
    \/ \E e \in StartIds, n \in StartNames, l \in Limits, t \in PresentedTokens :
          op_counter < MaxStarts /\ start_operation(e, n, l, t)

SpecStart == Init /\ [][NextStart]_vars

(* Catalog writes, listings and the blink task. *)

VisIds == {"vehicle", "lights", "doors"}
VisTokens == {Str("lock-100000")}
VisWrites ==
    {<<"vehicle", "speed_limit", Num(80)>>, <<"lights", "lights", Str("on")>>,
     <<"doors", "doors_locked", Bool(FALSE)>>}
VisStarts == {<<"vehicle", "setSpeedLimiter">>, <<"lights", "flashLights">>}
\* the least and the greatest values of the random calls of update_vehicle_state
RandomDraws ==
    {[rpm_delta |-> -200, temperature |-> 800, voltage |-> 1260, accel |-> 0, decel |-> 5],
     [rpm_delta |-> 350, temperature |-> 1050, voltage |-> 1460, accel |-> 6, decel |-> 15]}

NextVis ==
    \/ \E e \in VisIds, t \in VisTokens :
          acquire_lock(e, 1, t)
    \/ \E w \in VisWrites, t \in VisTokens :
          write_single(w[1], w[2], w[3], t)
    \/ \E st \in VisStarts, l \in Limits, t \in VisTokens :
          op_counter < MaxOps /\ start_operation(st[1], st[2], l, t)
    \/ \E op \in DOMAIN blink_tasks :
          blink(op)
    \/ \E e \in VisIds \cup {"ghost"}, rnd \in RandomDraws :
          list_data_resources(e, rnd)

SpecVis == Init /\ [][NextVis]_vars

(* Release and listing of leases, and the requests a lease gates. *)

RelIds == {"vehicle", "lights"}
\* a lease already expired, one that expires at the instant of its acquire, a live one
RelTTLs == {-1, 0, 1}
RelWrites == {<<"vehicle", "mode", Str("service")>>, <<"lights", "lights", Str("on")>>}
RelModes == {Str("service")}
RelStarts == {"flashLights"}
\* the token issued; the other token and no token are presented as well
RelTokens == {Str("lock-100000")}

NextRelease ==
    \/ \E e \in RelIds, ttl \in RelTTLs, t \in RelTokens :
          acquire_lock(e, ttl, t)
    \/ \E e \in RelIds, t \in PresentedTokens :
          release_lock(e, t)
    \/ \E e \in RelIds :
          list_locks(e)
    \/ \E w \in RelWrites, t \in PresentedTokens :
          write_single(w[1], w[2], w[3], t)
    \/ \E e \in RelIds, t \in PresentedTokens :
          clear_faults(e, t)
    \/ \E m \in RelModes, t \in PresentedTokens :
          set_mode("vehicle", m, t)
    \/ \E e \in RelIds, n \in RelStarts, t \in PresentedTokens :
          op_counter < MaxOps /\ start_operation(e, n, 120, t)
    \/ \E op \in OpIds, t \in PresentedTokens :
          stop_operation(op, t)

SpecRelease == Init /\ [][NextRelease]_vars

(* Requests that fail, next to the ones that set up their failure. *)

\* the observations served so far with the engine running, counted by the fuel burnt
Observed == (VehicleState_init.fuel_level - vehicle_state.fuel_level) \div FUEL_STEP

FailIds == {"vehicle", "ghost"}
FailTTLs == {-1, 1}
FailTokens == {Str("lock-100000")}
FailStarts == {"startEngine", "setSpeedLimiter", "resetECU"}
FailReads == {"speed", "speed_limit", "nosuch"}
FailWrites == {<<"vehicle", "mode", Str("service")>>, <<"vehicle", "speed", Num(50)>>}
FailModes == {Str("moon-drive")}

NextFail ==
    \/ \E ttl \in FailTTLs, t \in FailTokens :
          acquire_lock("vehicle", ttl, t)
    \/ \E n \in FailStarts, l \in Limits, t \in FailTokens :
          op_counter < MaxStarts /\ start_operation("vehicle", n, l, t)
    \/ \E e \in FailIds, n \in FailReads, rnd \in RandomDraws :
          Observed < MaxObs /\ read_single(e, n, rnd)
    \/ \E e \in FailIds, rnd \in RandomDraws :
          Observed < MaxObs /\ list_data_resources(e, rnd)
    \/ \E w \in FailWrites, t \in FailTokens :
          write_single(w[1], w[2], w[3], t)
    \/ \E e \in FailIds, t \in FailTokens :
          clear_faults(e, t)
    \/ \E e \in FailIds, m \in FailModes, t \in FailTokens :
          set_mode(e, m, t)
    \/ \E op \in OpIds, t \in FailTokens :
          stop_operation(op, t)
    \/ \E e \in FailIds, t \in FailTokens :
          release_lock(e, t)

SpecFail == Init /\ [][NextFail]_vars

(* Light-flash sequences that overlap, with writes to lights landing while a *)
(* sequence runs.                                                           *)

FlashTokens == {Str("lock-100000")}
FlashWrites == {Str("on"), Str("off")}

\* a blink task is between its first toggle and its restore
Flashing == \E op \in DOMAIN blink_tasks : blink_tasks[op].pc \in {"lit", "dark"}

NextBlink ==
    \/ \E t \in FlashTokens :
          acquire_lock("lights", 1, t)
    \/ \E t \in FlashTokens :
          op_counter < MaxFlashes /\ start_operation("lights", "flashLights", 120, t)
    \/ \E op \in DOMAIN blink_tasks :
          blink(op)
    \/ \E v \in FlashWrites, t \in FlashTokens :
          Flashing /\ write_single("lights", "lights", v, t)

SpecBlink == Init /\ [][NextBlink]_vars

(* The fault store, and requests addressed to an entity id that is not *)
(* registered.                                                          *)

FaultIds == {"vehicle", "engine", "ghost"}
FaultTTLs == {-1, 1}
FaultTokens == {Str("lock-100000")}
FaultPresented == FaultTokens \cup {None}
FaultStarts == {"resetECU", "selfTest"}

NextFaults ==
    \/ \E e \in FaultIds, ttl \in FaultTTLs, t \in FaultTokens :
          acquire_lock(e, ttl, t)
    \/ \E e \in FaultIds, t \in FaultPresented :
          clear_faults(e, t)
    \/ \E e \in FaultIds, inject \in BOOLEAN :
          Len(FAULTS["engine"]) < MaxFaults /\ list_faults(e, inject)
    \/ \E e \in FaultIds, n \in FaultStarts, t \in FaultPresented :
          op_counter < MaxOps /\ start_operation(e, n, 120, t)

SpecFaults == Init /\ [][NextFaults]_vars

(* The vehicle's evolution under observations, engine and brake commands, *)
(* started from states the vehicle reaches after many observations.        *)

PhysRpms == {0, RPM_IDLE, 5800, RPM_MAX}
PhysSpeeds == {0, 1, 3, 176, SPEED_MAX}
\* fuel left, in hundredths of a percent
PhysFuels == {9000, 2, 0}
\* the startup state, and states after observations with the engine running:
\* rpm is 0 only at startup or after an engine-off observation, which leaves
\* the speed at most SPEED_MAX - COAST_STEP
PhysStates ==
    {VehicleState_init} \cup
    {vs \in {[VehicleState_init EXCEPT !.engine = e, !.brake = b, !.rpm = r,
                                       !.speed = sp, !.fuel_level = f,
                                       !.temperature = 800, !.voltage = 1260] :
                e \in {"off", "running"}, b \in {Str("released"), Str("applied")},
                r \in PhysRpms, sp \in PhysSpeeds, f \in PhysFuels} :
        vs.rpm = 0 => vs.speed <= SPEED_MAX - COAST_STEP}

InitPhys ==
    /\ vehicle_state \in PhysStates
    /\ DATA_RESOURCES = DATA_RESOURCES_init
    /\ FAULTS = FAULTS_init
    /\ OPERATIONS = <<>>
    /\ op_counter = 0
    /\ LOCKS = <<>>
    /\ sim_tasks = <<>>
    /\ blink_tasks = <<>>
    /\ now = 0
    /\ resp = NoResp

\* fewer than MaxObs observations burnt fuel since the state the run started
\* from; with the tank empty, where the fuel counts no more, the state is one
\* a run starts from
WithinObs ==
    IF vehicle_state.fuel_level > 0
    THEN \E f0 \in PhysFuels \cup {VehicleState_init.fuel_level} :
            /\ f0 >= vehicle_state.fuel_level
            /\ f0 - vehicle_state.fuel_level < MaxObs * FUEL_STEP
    ELSE \E vs \in PhysStates :
            /\ vs.rpm = vehicle_state.rpm
            /\ vs.speed = vehicle_state.speed

PhysCommands == {"START_ENGINE", "STOP_ENGINE", "APPLY_BRAKE", "RELEASE_BRAKE", "HORN"}
PhysTokens == {Str("lock-100000")}
PhysWrites == {Str("bogus")}

\* an observation; within the budget when the engine runs
observe ==
    \E rnd \in RandomDraws :
        (vehicle_state.engine = "off" \/ WithinObs) /\ components(rnd)

NextPhys ==
    \/ observe
    \/ \E cmd \in PhysCommands :
          command(cmd)
    \/ \E t \in PhysTokens :
          acquire_lock("brakes", 1, t)
    \/ \E v \in PhysWrites, t \in PhysTokens :
          write_single("brakes", "brake", v, t)

SpecPhys == InitPhys /\ [][NextPhys]_vars

\* the client keeps observing: the dashboard polls the state every second
SpecPhysFair == SpecPhys /\ WF_vars(observe)

(* The lock-gated fields of the vehicle: catalog writes, light-flash   *)
(* sequences and the legacy command endpoint.                          *)

GatedIds == {"brakes", "lights", "doors"}
GatedTokens == {Str("lock-100000")}
GatedPresented == GatedTokens \cup {None}
GatedWrites ==
    {<<"brakes", "brake", Str("applied")>>, <<"lights", "lights", Str("on")>>,
     <<"doors", "doors_locked", Bool(FALSE)>>}
Commands ==
    {"START_ENGINE", "APPLY_BRAKE", "RELEASE_BRAKE", "LIGHTS_ON", "LIGHTS_OFF",
     "LOCK_DOORS", "UNLOCK_DOORS", "HORN"}

NextGated ==
    \/ \E e \in GatedIds, t \in GatedTokens :
          acquire_lock(e, 1, t)
    \/ \E w \in GatedWrites, t \in GatedPresented :
          write_single(w[1], w[2], w[3], t)
    \/ \E t \in GatedPresented :
          op_counter < MaxOps /\ start_operation("lights", "flashLights", 120, t)
    \/ \E op \in DOMAIN blink_tasks :
          blink(op)
    \/ \E cmd \in Commands :
          command(cmd)

SpecGated == Init /\ [][NextGated]_vars

(* The progress tasks under a fair scheduler. *)

\* the event loop resumes every progress task whose sleep has ended
SpecOpsFair == SpecOps /\ \A op \in 1..MaxOps : WF_vars(simulate_operation(op))

Next ==
    \/ NextGated
    \/ NextPhys
    \/ NextLock \/ NextOps \/ NextStart \/ NextVis \/ NextRelease \/ NextFail
    \/ NextBlink \/ NextFaults

Spec == Init /\ [][Next]_vars

----------------------------------------------------------------------------
(* Vocabulary of the claims. *)

\* the failure kinds of the specification, as the responses the handlers raise
LockRequired(r) == r.code = HTTP_LOCKED
Unsupported(r) ==
    r.code = HTTP_BAD_REQUEST /\ r.detail = "only vehicle mode is supported in demo"
InvalidValue(r) == r.code = HTTP_BAD_REQUEST /\ r.detail = "unsupported mode"
Succeeded(r) == r.code = HTTP_OK

\* token is the token of a lease on e that has not expired
HoldsLease(e, token) ==
    e \in DOMAIN LOCKS /\ LOCKS[e].token = token /\ now <= LOCKS[e].expires

\* r is a resource of e that accepts writes
Writable(e, r) ==
    /\ e \in DOMAIN DATA_RESOURCES
    /\ r \in DOMAIN DATA_RESOURCES[e]
    /\ DATA_RESOURCES[e][r].rw = "rw"

\* the step serves a PUT or a PATCH of value w[3] to resource w[2] of entity w[1]
IsWrite(w, t) ==
    /\ resp'.api = "write"
    /\ resp'.entity = w[1]
    /\ \/ write_single(w[1], w[2], w[3], t)
       \/ w \in PatchInputs /\ patch_single(w[1], w[2], w[3], t)

\* the step serves a mode set
IsSetMode(e, m, t) ==
    /\ resp'.api = "set_mode"
    /\ resp'.entity = e
    /\ set_mode(e, m, t)

\* the step serves a start request
IsStart(e, n, l, t) ==
    /\ resp'.api = "start"
    /\ resp'.entity = e
    /\ start_operation(e, n, l, t)

\* the step serves a listing
IsList(e, rnd) ==
    /\ resp'.api = "list"
    /\ resp'.entity = e
    /\ list_data_resources(e, rnd)

\* the step serves a lock acquire
IsAcquire(e, ttl, t) ==
    /\ resp'.api = "acquire"
    /\ resp'.entity = e
    /\ acquire_lock(e, ttl, t)

\* the step serves a lock release
IsRelease(e, t) ==
    /\ resp'.api = "release"
    /\ resp'.entity = e
    /\ release_lock(e, t)

\* the step serves a fault clear
IsClear(e, t) ==
    /\ resp'.api = "clear"
    /\ resp'.entity = e
    /\ clear_faults(e, t)

\* the step serves a stop of an operation that exists
IsStop(op, t) ==
    /\ resp'.api = "stop"
    /\ op \in DOMAIN OPERATIONS
    /\ stop_operation(op, t)

\* the step serves a listing of the lease of e
IsListLocks(e) ==
    /\ resp'.api = "list_locks"
    /\ resp'.entity = e
    /\ list_locks(e)

\* the step serves an observation of the vehicle
IsObserve(rnd) ==
    /\ resp'.api = "components"
    /\ components(rnd)

CurrentMode == DATA_RESOURCES["vehicle"]["mode"].value
ModeEnumeration == {Str("drive"), Str("service"), Str("transport")}

----------------------------------------------------------------------------
(* C1: a PUT or PATCH to a writable resource of e whose token is not the   *)
(* token of an unexpired lease on e (no lease at all included) fails with  *)
(* LockRequired and leaves the stored values and the live values as they   *)
(* were.                                                                   *)
C1_WriteWithoutLeaseRejected ==
    [][\A w \in WriteInputs, t \in PresentedTokens :
          (IsWrite(w, t) /\ Writable(w[1], w[2]) /\ ~HoldsLease(w[1], t))
              => /\ LockRequired(resp')
                 /\ DATA_RESOURCES' = DATA_RESOURCES
                 /\ vehicle_state' = vehicle_state]_vars

\* a write to an entity was refused with LockRequired while that entity has an
\* unexpired lease
C1_Witness ==
    /\ resp.api = "write"
    /\ LockRequired(resp)
    /\ resp.entity \in DOMAIN LOCKS
    /\ now <= LOCKS[resp.entity].expires

----------------------------------------------------------------------------
(* C2: an acquire on e invalidates the token of the lease it replaces:     *)
(* when the acquire returns, the earlier token no longer validates for e.  *)
C2_AcquireInvalidatesEarlierToken ==
    [][\A e \in LockIds, ttl \in TTLs, t \in Tokens :
          (IsAcquire(e, ttl, t) /\ e \in DOMAIN LOCKS)
              => ~(/\ e \in DOMAIN LOCKS'
                   /\ ~(LOCKS'[e].expires < now')
                   /\ LOCKS'[e].token = LOCKS[e].token)]_vars

----------------------------------------------------------------------------
(* C3: while the acquire of a lease is the last request served, a write    *)
(* or a mode set on its entity with its token succeeds at the acquisition  *)
(* instant and fails with LockRequired once the clock is more than ttl     *)
(* seconds past it.                                                        *)

\* the last request served was an acquire on e that issued token t
JustAcquired(e, t) ==
    resp.api = "acquire" /\ resp.entity = e /\ resp.lockToken = t /\ e \in DOMAIN LOCKS
\* the instant of that acquire
AcquiredAt(e) == LOCKS[e].expires - resp.expiresIn

LeaseWindow(ttls) ==
    /\ \A w \in WriteInputs, t \in Tokens :
          (JustAcquired(w[1], t) /\ resp.expiresIn \in ttls
              /\ IsWrite(w, t) /\ Writable(w[1], w[2]))
              => /\ now = AcquiredAt(w[1]) => Succeeded(resp')
                 /\ now > AcquiredAt(w[1]) + resp.expiresIn => LockRequired(resp')
    /\ \A m \in ModeEnumeration, t \in Tokens :
          (JustAcquired("vehicle", t) /\ resp.expiresIn \in ttls
              /\ IsSetMode("vehicle", m, t))
              => /\ now = AcquiredAt("vehicle") => Succeeded(resp')
                 /\ now > AcquiredAt("vehicle") + resp.expiresIn => LockRequired(resp')

----------------------------------------------------------------------------
(* C8: a mode set fails with Unsupported when the entity is not the root,  *)
(* otherwise with LockRequired when the token does not validate for the    *)
(* root, otherwise with InvalidValue when the mode is outside {drive,      *)
(* service, transport}; the three failures leave the mode unchanged, and a *)
(* call passing the three checks sets the mode to the requested value.     *)
C8_SetModeChecks ==
    [][\A e \in ModeEntityIds, m \in Modes, t \in PresentedTokens :
          IsSetMode(e, m, t) =>
              IF e # "vehicle"
              THEN Unsupported(resp') /\ CurrentMode' = CurrentMode
              ELSE IF ~HoldsLease("vehicle", t)
              THEN LockRequired(resp') /\ CurrentMode' = CurrentMode
              ELSE IF m \notin ModeEnumeration
              THEN InvalidValue(resp') /\ CurrentMode' = CurrentMode
              ELSE Succeeded(resp') /\ CurrentMode' = m]_vars

\* a mode outside the enumeration was refused with InvalidValue
C8_Witness ==
    /\ resp.api = "set_mode"
    /\ InvalidValue(resp)
    /\ HoldsLease("vehicle", LOCKS["vehicle"].token)

----------------------------------------------------------------------------
(* C9: a PUT or PATCH with a valid lock to an enumerated writable resource *)
(* whose value is outside the enumeration fails and leaves the stored and  *)
(* the live values unchanged.                                              *)
C9_EnumeratedWriteValidated ==
    [][\A w \in WriteInputs, t \in PresentedTokens :
          (/\ IsWrite(w, t)
           /\ Writable(w[1], w[2])
           /\ HoldsLease(w[1], t)
           /\ DATA_RESOURCES[w[1]][w[2]].enum # {}
           /\ w[3] \notin DATA_RESOURCES[w[1]][w[2]].enum)
              => /\ ~Succeeded(resp')
                 /\ DATA_RESOURCES' = DATA_RESOURCES
                 /\ vehicle_state' = vehicle_state]_vars

----------------------------------------------------------------------------
(* C4: while an operation is running its progress never decreases; its     *)
(* progress is 100 only in states where its status is completed; and once  *)
(* its status is completed or stopped its progress never changes.          *)
C4_ProgressWhileRunning ==
    [][\A op \in DOMAIN OPERATIONS :
          (OPERATIONS[op].status = "running" /\ OPERATIONS'[op].status = "running")
              => OPERATIONS'[op].progress >= OPERATIONS[op].progress]_vars

C4_ProgressFrozenWhenTerminal ==
    [][\A op \in DOMAIN OPERATIONS :
          OPERATIONS[op].status \in {"completed", "stopped"}
              => OPERATIONS'[op].progress = OPERATIONS[op].progress]_vars

C4_FullProgressOnlyCompleted ==
    \A op \in DOMAIN OPERATIONS :
        OPERATIONS[op].progress = 100 => OPERATIONS[op].status = "completed"

\* the three parts of C4 together
C4_Progress ==
    /\ C4_ProgressWhileRunning
    /\ C4_ProgressFrozenWhenTerminal
    /\ []C4_FullProgressOnlyCompleted

----------------------------------------------------------------------------
(* C5: completed and stopped are terminal: once an operation's status is   *)
(* completed or stopped no step changes it.                                *)
C5_TerminalStatus ==
    [][\A op \in DOMAIN OPERATIONS :
          OPERATIONS[op].status \in {"completed", "stopped"}
              => OPERATIONS'[op].status = OPERATIONS[op].status]_vars

----------------------------------------------------------------------------
(* C6: once a stop has set an operation's status to stopped, every later   *)
(* step, those of its progress task included, leaves the status stopped    *)
(* and the progress as the stop found it.                                  *)
C6_StopWins ==
    [][\A op \in DOMAIN OPERATIONS :
          OPERATIONS[op].status = "stopped"
              => /\ OPERATIONS'[op].status = "stopped"
                 /\ OPERATIONS'[op].progress = OPERATIONS[op].progress]_vars

\* an operation was stopped part way and its progress task has since woken and ended
C6_Witness ==
    \E op \in DOMAIN OPERATIONS :
        /\ OPERATIONS[op].status = "stopped"
        /\ OPERATIONS[op].progress > 0
        /\ OPERATIONS[op].progress < 100
        /\ ~sim_tasks[op].alive

----------------------------------------------------------------------------
(* C7: a start of resetECU, flashLights or setSpeedLimiter with a token    *)
(* that does not validate for the entity fails with LockRequired and       *)
(* changes neither the operation table, the id counter, the tasks, the     *)
(* faults, the catalog nor the vehicle state; every other start returns an *)
(* id no operation had before, whose record is running with progress 0.    *)
C7_StartChecks ==
    [][\A e \in StartIds, n \in StartNames, l \in Limits, t \in PresentedTokens :
          IsStart(e, n, l, t) =>
              IF n \in {"resetECU", "flashLights", "setSpeedLimiter"} /\ ~HoldsLease(e, t)
              THEN /\ LockRequired(resp')
                   /\ UNCHANGED <<OPERATIONS, op_counter, sim_tasks, blink_tasks,
                                  FAULTS, DATA_RESOURCES, vehicle_state>>
              ELSE /\ Succeeded(resp')
                   /\ resp'.opId \notin DOMAIN OPERATIONS
                   /\ resp'.opId \in DOMAIN OPERATIONS'
                   /\ OPERATIONS'[resp'.opId].entity = e
                   /\ OPERATIONS'[resp'.opId].name = n
                   /\ OPERATIONS'[resp'.opId].status = "running"
                   /\ OPERATIONS'[resp'.opId].progress = 0
                   /\ \A op \in DOMAIN OPERATIONS : OPERATIONS'[op] = OPERATIONS[op]]_vars

\* a second operation, a privileged one, was started under a valid lock
C7_Witness ==
    /\ resp.api = "start"
    /\ Succeeded(resp)
    /\ resp.opId = 2
    /\ OPERATIONS[2].name = "setSpeedLimiter"
    /\ OPERATIONS[2].status = "running"
    /\ OPERATIONS[1].name \in {"resetECU", "flashLights", "setSpeedLimiter"}

----------------------------------------------------------------------------
(* C10: when a successful write of v to resource r of e is followed by a   *)
(* listing of e, no other request served in between, the listing's         *)
(* live-value map gives v for r, whatever the blink tasks did in between.  *)
C10_WriteVisible ==
    [][\A e \in VisIds, rnd \in RandomDraws :
          (resp.api = "write" /\ Succeeded(resp) /\ resp.entity = e /\ IsList(e, rnd))
              => /\ Succeeded(resp')
                 /\ resp.name \in DOMAIN resp'.values
                 /\ resp'.values[resp.name] = resp.value]_vars

----------------------------------------------------------------------------
(* C11: a release on e with a token that does not validate for e fails     *)
(* with LockRequired and leaves the lock table as it was; with the valid   *)
(* token it removes the lease of e, and of e only, so that a listing of e  *)
(* is empty; and while e has no lease, until an acquire gives it one,      *)
(* every write, fault clear, mode set, privileged start and stop on e      *)
(* fails with LockRequired whatever token it presents.                     *)

\* what a release does
C11_Release ==
    \A e \in RelIds, t \in PresentedTokens :
        IsRelease(e, t) =>
            IF HoldsLease(e, t)
            THEN /\ Succeeded(resp')
                 /\ e \notin DOMAIN LOCKS'
                 /\ locks_of(e)' = <<>>
                 /\ DOMAIN LOCKS' = DOMAIN LOCKS \ {e}
                 /\ \A o \in DOMAIN LOCKS' : LOCKS'[o] = LOCKS[o]
            ELSE /\ LockRequired(resp')
                 /\ LOCKS' = LOCKS

\* the requests a lease gates are refused on an entity that has no lease
C11_RefusedWithoutLease ==
    /\ \A w \in RelWrites, t \in PresentedTokens :
          (IsWrite(w, t) /\ Writable(w[1], w[2]) /\ w[1] \notin DOMAIN LOCKS)
              => LockRequired(resp')
    /\ \A e \in RelIds, t \in PresentedTokens :
          (IsClear(e, t) /\ e \notin DOMAIN LOCKS) => LockRequired(resp')
    /\ \A m \in RelModes, t \in PresentedTokens :
          (IsSetMode("vehicle", m, t) /\ "vehicle" \notin DOMAIN LOCKS)
              => LockRequired(resp')
    /\ \A e \in RelIds, n \in RelStarts, t \in PresentedTokens :
          (IsStart(e, n, 120, t) /\ e \notin DOMAIN LOCKS) => LockRequired(resp')
    /\ \A op \in OpIds, t \in PresentedTokens :
          (IsStop(op, t) /\ OPERATIONS[op].entity \notin DOMAIN LOCKS)
              => LockRequired(resp')

\* only an acquire gives an entity a lease
C11_OnlyAcquireLeases ==
    \A e \in RelIds :
        (e \notin DOMAIN LOCKS /\ e \in DOMAIN LOCKS') => resp'.api = "acquire"

C11_ReleaseValidatesThenRemoves ==
    [][C11_Release /\ C11_RefusedWithoutLease /\ C11_OnlyAcquireLeases]_vars

\* a release succeeded on one entity while another entity keeps its live lease
C11_Witness ==
    /\ resp.api = "release"
    /\ Succeeded(resp)
    /\ resp.entity \notin DOMAIN LOCKS
    /\ \E o \in DOMAIN LOCKS : now <= LOCKS[o].expires

----------------------------------------------------------------------------
(* C12: a request that ends in a failure leaves the vehicle state, the     *)
(* catalog (the mode with it), the faults, the lock table, the operation   *)
(* table and the id counter exactly as they were before the request.       *)

\* the step serves a request and the request fails: no task and no clock moved
FailedRequestStep ==
    /\ ~Succeeded(resp')
    /\ UNCHANGED <<sim_tasks, blink_tasks, now>>

C12_FailureLeavesStateUnchanged ==
    [][FailedRequestStep
          => UNCHANGED <<vehicle_state, DATA_RESOURCES, FAULTS, LOCKS, OPERATIONS,
                         op_counter>>]_vars

----------------------------------------------------------------------------
(* C13: a lease is valid exactly when now < expires: a request validated   *)
(* with the lease's own token succeeds while now < expires and fails with  *)
(* LockRequired from the instant now = expires on, where a listing of the  *)
(* entity reports no lease; and validation with the lease's own token      *)
(* succeeds exactly when a listing of the entity reports the lease.        *)

\* validation, probed by a release that presents the lease's own token
C13_ValidWhileBeforeExpiry ==
    \A e \in RelIds :
        (e \in DOMAIN LOCKS /\ IsRelease(e, LOCKS[e].token))
            => /\ now < LOCKS[e].expires => Succeeded(resp')
               /\ now >= LOCKS[e].expires => LockRequired(resp')
               /\ Succeeded(resp') <=> locks_of(e) # <<>>

C13_ListedWhileBeforeExpiry ==
    \A e \in RelIds :
        (e \in DOMAIN LOCKS /\ IsListLocks(e))
            => /\ now < LOCKS[e].expires => resp'.locks # <<>>
               /\ now >= LOCKS[e].expires => resp'.locks = <<>>

C13_ValidIffBeforeExpiry ==
    [][C13_ValidWhileBeforeExpiry /\ C13_ListedWhileBeforeExpiry]_vars

----------------------------------------------------------------------------
(* C14: once every light-flash sequence that was started has run to its    *)
(* end, lights has the value it had before the first of them started.      *)
(* Where the only writes to lights land while a sequence is running, that  *)
(* value is the initial one.                                               *)
C14_FlashRestoresLights ==
    (/\ DOMAIN blink_tasks # {}
     /\ \A op \in DOMAIN blink_tasks : blink_tasks[op].pc = "done")
        => vehicle_state.lights = VehicleState_init.lights

----------------------------------------------------------------------------
(* C15: in every reachable state the mode is drive, service or transport,  *)
(* the engine is off or running, the brake is applied or released and the  *)
(* lights are off or on.                                                   *)
C15_EnumeratedFieldsLegal ==
    /\ CurrentMode \in ModeEnumeration
    /\ vehicle_state.engine \in {"off", "running"}
    /\ vehicle_state.brake \in {Str("applied"), Str("released")}
    /\ vehicle_state.lights \in {Str("off"), Str("on")}

----------------------------------------------------------------------------
(* C16: a fault clear on e with a token that does not validate for e fails *)
(* with LockRequired and leaves every fault list as it was; with the valid *)
(* token it empties the list of e and no other; and the fault list of e is *)
(* emptied only by a successful request addressed to e itself, that is,    *)
(* one that passed validation against the lease of e.                      *)

C16_Clear ==
    \A e \in FaultIds, t \in FaultPresented :
        IsClear(e, t) =>
            IF HoldsLease(e, t)
            THEN /\ Succeeded(resp')
                 /\ FAULTS'[e] = <<>>
                 /\ \A o \in DOMAIN FAULTS \ {e} : FAULTS'[o] = FAULTS[o]
            ELSE /\ LockRequired(resp')
                 /\ FAULTS' = FAULTS

C16_EmptiedUnderOwnLease ==
    \A e \in DOMAIN FAULTS :
        (FAULTS[e] # <<>> /\ FAULTS'[e] = <<>>)
            => /\ Succeeded(resp')
               /\ resp'.entity = e
               /\ \E t \in FaultTokens : HoldsLease(e, t)

C16_FaultsClearedUnderOwnLease ==
    [][C16_Clear /\ C16_EmptiedUnderOwnLease]_vars

----------------------------------------------------------------------------
(* C18: every key of the lock table, every key of the fault store and the  *)
(* entity of every operation record is a registered entity id.             *)
C18_EntityIdsRegistered ==
    /\ DOMAIN LOCKS \subseteq ENTITIES
    /\ DOMAIN FAULTS \subseteq ENTITIES
    /\ \A op \in DOMAIN OPERATIONS : OPERATIONS[op].entity \in ENTITIES

----------------------------------------------------------------------------
(* C17: in every reachable state each entity has exactly the descriptors   *)
(* it had at startup, each descriptor has its startup capability, and the  *)
(* only catalog field that differs from startup is the value of a          *)
(* read-write descriptor.                                                  *)
C17_CatalogFixed ==
    /\ DOMAIN DATA_RESOURCES = DOMAIN DATA_RESOURCES_init
    /\ \A e \in DOMAIN DATA_RESOURCES_init :
          /\ DOMAIN DATA_RESOURCES[e] = DOMAIN DATA_RESOURCES_init[e]
          /\ \A n \in DOMAIN DATA_RESOURCES_init[e] :
                /\ DATA_RESOURCES[e][n].rw = DATA_RESOURCES_init[e][n].rw
                /\ DATA_RESOURCES[e][n].enum = DATA_RESOURCES_init[e][n].enum
                /\ DATA_RESOURCES[e][n].rw = "r"
                      => DATA_RESOURCES[e][n].value = DATA_RESOURCES_init[e][n].value

----------------------------------------------------------------------------
(* C19: with the engine off each observation lowers the speed unless it is *)
(* 0 already, never takes it below 0, leaves a speed of 0 at 0 and sets    *)
(* rpm to 0; and, observations being repeated, an engine that stays off    *)
(* leads to speed 0.                                                       *)

C19_EngineOffStep ==
    \A rnd \in RandomDraws :
        (IsObserve(rnd) /\ vehicle_state.engine = "off")
            => /\ vehicle_state.speed > 0 => vehicle_state'.speed < vehicle_state.speed
               /\ vehicle_state.speed = 0 => vehicle_state'.speed = 0
               /\ vehicle_state'.speed >= 0
               /\ vehicle_state'.rpm = 0

C19_EngineOffEvolution ==
    /\ [][C19_EngineOffStep]_vars
    /\ (vehicle_state.engine = "off")
          ~> (vehicle_state.speed = 0 \/ vehicle_state.engine = "running")

\* an observation was served with the engine off and the vehicle still coasts
C19_Witness ==
    /\ resp.api = "components"
    /\ vehicle_state.engine = "off"
    /\ vehicle_state.rpm = 0
    /\ vehicle_state.speed > 0

----------------------------------------------------------------------------
(* C20: in every reachable state speed is within 0..180, fuel_level within *)
(* 0..100 percent and rpm within 0..6000, and no step raises fuel_level.   *)

C20_Ranges ==
    /\ vehicle_state.speed \in 0..SPEED_MAX
    /\ vehicle_state.fuel_level \in 0..VehicleState_init.fuel_level
    /\ vehicle_state.rpm \in 0..RPM_MAX

C20_PhysicalBounds ==
    /\ []C20_Ranges
    /\ [][vehicle_state'.fuel_level <= vehicle_state.fuel_level]_vars

\* an observation left speed and rpm at their upper clamps and the tank empty
C20_Witness ==
    /\ resp.api = "components"
    /\ vehicle_state.speed = SPEED_MAX
    /\ vehicle_state.rpm = RPM_MAX
    /\ vehicle_state.fuel_level = 0

----------------------------------------------------------------------------
(* C21: brake, lights and doors_locked change value only in a step that is *)
(* a successful, lock-validated catalog write on the owning entity or a    *)
(* step of a light-flash sequence.                                         *)

\* the step is a successful catalog write on entity e
ValidatedWriteOn(e) ==
    resp'.api = "write" /\ Succeeded(resp') /\ resp'.entity = e
\* the step is one of a blink task
FlashStep == blink_tasks' # blink_tasks /\ resp' = resp

C21_GatedFieldsChangeUnderLock ==
    [][/\ vehicle_state'.brake # vehicle_state.brake => ValidatedWriteOn("brakes")
       /\ vehicle_state'.lights # vehicle_state.lights
             => ValidatedWriteOn("lights") \/ FlashStep
       /\ vehicle_state'.doors_locked # vehicle_state.doors_locked
             => ValidatedWriteOn("doors")]_vars

----------------------------------------------------------------------------
(* C22: under weak fairness of the progress task every operation that was  *)
(* started eventually has status completed or stopped, and an operation    *)
(* that no stop ever reaches eventually is completed with progress 100.    *)

Started(op) == op \in DOMAIN OPERATIONS
Terminated(op) ==
    /\ op \in DOMAIN OPERATIONS
    /\ \/ OPERATIONS[op].status = "stopped"
       \/ OPERATIONS[op].status = "completed" /\ OPERATIONS[op].progress = 100

C22_OperationsTerminate ==
    \A op \in 1..MaxOps : Started(op) ~> Terminated(op)

\* an operation ran its ten steps and completed, its task has ended, no stop reached it
C22_Witness ==
    \E op \in DOMAIN OPERATIONS :
        /\ OPERATIONS[op].status = "completed"
        /\ OPERATIONS[op].progress = 100
        /\ ~sim_tasks[op].alive
        /\ resp.api # "stop"

----------------------------------------------------------------------------
(* C23: in every reachable state in which no light-flash sequence is in    *)
(* progress, the stored values of brakes.brake, lights.lights and          *)
(* doors.doors_locked equal the brake, lights and doors_locked fields of   *)
(* the vehicle state, which the listings report as the live values.        *)
C23_StoredMatchesLive ==
    ~Flashing =>
        /\ DATA_RESOURCES["brakes"]["brake"].value = LiveValues("brakes", vehicle_state)["brake"]
        /\ DATA_RESOURCES["lights"]["lights"].value = LiveValues("lights", vehicle_state)["lights"]
        /\ DATA_RESOURCES["doors"]["doors_locked"].value
              = LiveValues("doors", vehicle_state)["doors_locked"]

====
